---- MODULE Spec2Model ----
(***************************************************************************)
(* Model of atm/metrics.py: rank_n_accuracy, get_per_class_matrix,         *)
(* get_pr_roc_curves, get_metrics_binary, get_metrics_multiclass,          *)
(* test_pipeline and cross_validate_pipeline.                              *)
(*                                                                         *)
(* Numbers are exact rationals [nan, num, den]; NaN is the value with      *)
(* nan = TRUE.  Labels are class indices 0..C-1 as in Python; matrices are *)
(* sequences of rows, so column j of the model is column j-1 of the array. *)
(***************************************************************************)
EXTENDS Integers, Sequences, FiniteSets, TLC

\* ------------------------------------------------------------------ bounds
MaxSamples == 2
NumClasses == 3
MaxFolds == 3

\* ------------------------------------------------------------------ numbers
R(n, d) == [nan |-> FALSE, num |-> n, den |-> d]
NaN == [nan |-> TRUE, num |-> 0, den |-> 1]
Zero == R(0, 1)
Half == R(1, 2)
One == R(1, 1)
isnan(x) == x.nan
Less(a, b) == a.num * b.den < b.num * a.den
Same(a, b) == a.num * b.den = b.num * a.den
RatAdd(a, b) == R(a.num * b.den + b.num * a.den, a.den * b.den)
\* 1 - p on an array entry: NaN stays NaN
Complement(p) == IF isnan(p) THEN NaN ELSE R(p.den - p.num, p.den)
InUnit(x) == ~isnan(x) /\ 0 <= x.num /\ x.num <= x.den

RECURSIVE SumRat(_, _)
SumRat(f, n) == IF n = 0 THEN Zero ELSE RatAdd(SumRat(f, n - 1), f[n])
\* np.average / the mean of a sequence of scores: NaN as soon as one is NaN
Mean(f) ==
  IF \E k \in 1..Len(f) : isnan(f[k]) THEN NaN
  ELSE LET s == SumRat(f, Len(f)) IN R(s.num, s.den * Len(f))

\* ------------------------------------------------------------------ arrays
Col(M, j) == [i \in 1..Len(M) |-> M[i][j]]
NumCols(M) == Len(M[1])
Count(y, v) == Cardinality({i \in 1..Len(y) : y[i] = v})
RECURSIVE SortAsc(_)
SortAsc(S) ==
  IF S = {} THEN <<>>
  ELSE LET m == CHOOSE x \in S : \A z \in S : x <= z
       IN <<m>> \o SortAsc(S \ {m})
\* np.unique(y): the sorted distinct values
unique(y) == SortAsc({y[i] : i \in 1..Len(y)})
\* looks at the positive-class column only
any_isnan_positive_column(M) == \E i \in 1..Len(M) : isnan(M[i][Len(M[i])])
any_isnan(M) == \E i \in 1..Len(M) : \E j \in 1..Len(M[i]) : isnan(M[i][j])
\* M.ravel(): row-major flattening
RECURSIVE ravel(_)
ravel(M) == IF Len(M) = 0 THEN <<>> ELSE M[1] \o ravel(Tail(M))

\* --------------------------------------------- sklearn.metrics primitives
Agree(yt, yp) == Cardinality({i \in 1..Len(yt) : yt[i] = yp[i]})
LabelsOf(yt, yp) == {yt[i] : i \in 1..Len(yt)} \cup {yp[i] : i \in 1..Len(yp)}
RECURSIVE SumOver(_, _)
SumOver(S, f) ==
  IF S = {} THEN 0
  ELSE LET c == CHOOSE c \in S : TRUE IN f[c] + SumOver(S \ {c}, f)

accuracy_score(yt, yp) == R(Agree(yt, yp), Len(yt))

\* 1 - (n - agree) / (n - sum_c t_c p_c / n); 0/0 (both vectors one same class) is NaN
cohen_kappa_score(yt, yp) ==
  LET n == Len(yt)
      L == LabelsOf(yt, yp)
      e == SumOver(L, [c \in L |-> Count(yt, c) * Count(yp, c)])
  IN IF n * n - e = 0 THEN NaN
     ELSE R((n * n - e) - n * (n - Agree(yt, yp)), n * n - e)

\* F1 of one class: 2tp / (2tp + fp + fn), 0 when the denominator is 0
F1Of(yt, yp, c) ==
  LET tp == Cardinality({i \in 1..Len(yt) : yt[i] = c /\ yp[i] = c})
      fp == Cardinality({i \in 1..Len(yt) : yt[i] # c /\ yp[i] = c})
      fn == Cardinality({i \in 1..Len(yt) : yt[i] = c /\ yp[i] # c})
  IN IF 2 * tp + fp + fn = 0 THEN Zero ELSE R(2 * tp, 2 * tp + fp + fn)
f1_score(yt, yp) == F1Of(yt, yp, 1)
f1_score_micro(yt, yp) == R(Agree(yt, yp), Len(yt))
f1_score_macro(yt, yp) ==
  LET ls == SortAsc(LabelsOf(yt, yp))
  IN Mean([k \in 1..Len(ls) |-> F1Of(yt, yp, ls[k])])

\* cov(t,p) / sqrt(cov(t,t) cov(p,p)), kept as numerator and squared
\* denominator; 0 when the denominator is 0
matthews_corrcoef(yt, yp) ==
  LET n == Len(yt)
      L == LabelsOf(yt, yp)
      tp == n * Agree(yt, yp) - SumOver(L, [c \in L |-> Count(yt, c) * Count(yp, c)])
      tt == n * n - SumOver(L, [c \in L |-> Count(yt, c) * Count(yt, c)])
      pp == n * n - SumOver(L, [c \in L |-> Count(yp, c) * Count(yp, c)])
  IN IF tt * pp = 0 THEN [num |-> 0, densq |-> 1] ELSE [num |-> tp, densq |-> tt * pp]

\* the distinct scores, highest first
RECURSIVE SortDesc(_)
SortDesc(S) ==
  IF S = {} THEN <<>>
  ELSE LET m == CHOOSE x \in S : \A z \in S : ~Less(x, z)
       IN <<m>> \o SortDesc({z \in S : ~Same(z, m)})
Thresholds(s) == SortDesc({s[i] : i \in 1..Len(s)})
\* samples of class v scored at or above threshold t
AtOrAbove(y, s, v, t) == Cardinality({i \in 1..Len(y) : y[i] = v /\ ~Less(s[i], t)})
Frac(n, d) == IF d = 0 THEN NaN ELSE R(n, d)

\* ROC-AUC of one indicator column: the share of (positive, negative) pairs
\* ranked correctly, ties counting one half
BinaryAuc(y, s) ==
  LET pos == {i \in 1..Len(y) : y[i] = 1}
      neg == {i \in 1..Len(y) : y[i] = 0}
      gt == Cardinality({p \in pos \X neg : Less(s[p[2]], s[p[1]])})
      eq == Cardinality({p \in pos \X neg : Same(s[p[1]], s[p[2]])})
  IN R(2 * gt + eq, 2 * Cardinality(pos) * Cardinality(neg))
OneClassOnly(y) == Count(y, 1) = 0 \/ Count(y, 0) = 0
\* roc_auc_score raises ValueError when a column it scores holds one class only
roc_auc_raises(Y, average) ==
  IF average = "micro" THEN OneClassOnly(ravel(Y))
  ELSE \E j \in 1..NumCols(Y) : OneClassOnly(Col(Y, j))
roc_auc_score(Y, P, average) ==
  IF average = "micro" THEN BinaryAuc(ravel(Y), ravel(P))
  ELSE Mean([j \in 1..NumCols(Y) |-> BinaryAuc(Col(Y, j), Col(P, j))])

\* What average precision is on a column without a positive example: the
\* recall there is 0/0.  Library builds differ: NaN, or 0 with a warning.
APZeroPositive == {"nan", "zero"}
\* sum over thresholds of (recall_k - recall_{k-1}) * precision_k
BinaryAP(y, s, lib) ==
  LET P == Count(y, 1)
      th == Thresholds(s)
      tp(k) == IF k = 0 THEN 0 ELSE AtOrAbove(y, s, 1, th[k])
      fp(k) == AtOrAbove(y, s, 0, th[k])
      terms == [k \in 1..Len(th) |-> R((tp(k) - tp(k - 1)) * tp(k), P * (tp(k) + fp(k)))]
  IN IF P = 0 THEN (IF lib = "nan" THEN NaN ELSE Zero)
     ELSE SumRat(terms, Len(th))
average_precision_score(Y, P, lib) ==
  Mean([j \in 1..NumCols(Y) |-> BinaryAP(Col(Y, j), Col(P, j), lib)])

\* one point per distinct score, highest threshold first; a rate whose
\* denominator is 0 is NaN
roc_curve(y, s) ==
  LET th == Thresholds(s)
  IN <<[k \in 1..Len(th) |-> Frac(AtOrAbove(y, s, 0, th[k]), Count(y, 0))],
       [k \in 1..Len(th) |-> Frac(AtOrAbove(y, s, 1, th[k]), Count(y, 1))],
       th>>
\* lowest threshold first, closed by the point (precision 1, recall 0)
precision_recall_curve(y, s) ==
  LET th == Thresholds(s)
      n == Len(th)
      tp(k) == AtOrAbove(y, s, 1, th[k])
      fp(k) == AtOrAbove(y, s, 0, th[k])
  IN <<[k \in 1..n |-> Frac(tp(n + 1 - k), tp(n + 1 - k) + fp(n + 1 - k))] \o <<One>>,
       [k \in 1..n |-> Frac(tp(n + 1 - k), Count(y, 1))] \o <<Zero>>,
       [k \in 1..n |-> th[n + 1 - k]]>>

\* ------------------------------------------------------------ atm/metrics.py
\* n as the caller writes it: an integer count (den = 1) or a proportion
IntN(k) == R(k, 1)
DefaultN == R(33, 100)
\* round(): to the nearest integer
Round(x) ==
  IF x.num >= 0 THEN (2 * x.num + x.den) \div (2 * x.den)
  ELSE 0 - ((2 * (0 - x.num) + x.den) \div (2 * x.den))
\* the K that n resolves to for a matrix of C columns
ResolveK(n, C) == IF n.num < n.den THEN Round(R(C * n.num, n.den)) ELSE n.num
\* how many columns rankings[:, :K] keeps
\* rankings[:, :K-1]: one column short
SliceLen_one_short(K, C) ==
  IF K - 1 >= 0 THEN (IF K - 1 < C THEN K - 1 ELSE C)
  ELSE (IF C + K - 1 > 0 THEN C + K - 1 ELSE 0)
SliceLen(K, C) ==
  IF K >= 0 THEN (IF K < C THEN K ELSE C)
  ELSE (IF C + K > 0 THEN C + K ELSE 0)
\* np.argsort(-row): column indices by descending score, NaN last, equal
\* scores in column order
Before(row, k, j) ==
  \/ ~isnan(row[k]) /\ isnan(row[j])
  \/ ~isnan(row[k]) /\ ~isnan(row[j]) /\ Less(row[j], row[k])
  \/ /\ isnan(row[k]) = isnan(row[j])
     /\ isnan(row[k]) \/ Same(row[k], row[j])
     /\ k < j
argsort_desc(row) ==
  [p \in 1..Len(row) |->
     (CHOOSE j \in 1..Len(row) :
        Cardinality({k \in 1..Len(row) : Before(row, k, j)}) = p - 1) - 1]

rank_n_accuracy(y_true, y_prob_mat, n) ==
  LET n_classes == NumCols(y_prob_mat)
      K == ResolveK(n, n_classes)
      rankings == [i \in 1..Len(y_prob_mat) |->
                     SubSeq(argsort_desc(y_prob_mat[i]), 1, SliceLen(K, n_classes))]
      num_samples == Len(y_true)
      correct == {i \in 1..num_samples :
                    \E p \in 1..Len(rankings[i]) : rankings[i][p] = y_true[i]}
  IN [exc |-> "none", val |-> R(Cardinality(correct), num_samples)]

\* the classes argument: None, or an explicit list
None == [given |-> FALSE, list |-> <<>>]
Explicit(l) == [given |-> TRUE, list |-> l]
\* Python truth value of the argument: None and the empty list are false
Truthy(classes) == classes.given /\ Len(classes.list) > 0
get_per_class_matrix(y, classes) ==
  LET cls == IF Truthy(classes) THEN classes.list ELSE unique(y)
  IN [i \in 1..Len(y) |-> [j \in 1..Len(cls) |-> IF y[i] = cls[j] THEN 1 ELSE 0]]

\* extracts the ROC curve only
get_pr_roc_curves_roc_only(y_true, y_pred_probs) ==
  LET roc == roc_curve(y_true, y_pred_probs)
  IN [roc_curve |-> [fprs |-> roc[1], tprs |-> roc[2], thresholds |-> roc[3]]]
get_pr_roc_curves(y_true, y_pred_probs) ==
  LET roc == roc_curve(y_true, y_pred_probs)
      pr == precision_recall_curve(y_true, y_pred_probs)
  IN [roc_curve |-> [fprs |-> roc[1], tprs |-> roc[2], thresholds |-> roc[3]],
      pr_curve |-> [precisions |-> pr[1], recalls |-> pr[2], thresholds |-> pr[3]]]

\* a call's outcome: the mapping it returns, or the exception it raises,
\* with the arguments of every roc_auc_score invocation it made
Ok(res, calls) == [exc |-> "none", res |-> res, auc_calls |-> calls]
Raise(e, calls) == [exc |-> e, res |-> [k \in {} |-> NaN], auc_calls |-> calls]
AucCall(by, Y, P, average) == [by |-> by, y_true |-> Y, y_score |-> P, average |-> average]

get_metrics_binary(y_true, y_pred, y_pred_probs, include_curves, lib) ==
  LET results == [accuracy |-> accuracy_score(y_true, y_pred),
                  cohen_kappa |-> cohen_kappa_score(y_true, y_pred),
                  f1 |-> f1_score(y_true, y_pred),
                  mcc |-> matthews_corrcoef(y_true, y_pred),
                  roc_auc |-> NaN,
                  ap |-> NaN]
      all_labels_same == Len(unique(y_true)) = 1
      any_probs_nan == any_isnan(y_pred_probs)
      y_true_bin == get_per_class_matrix(y_true, Explicit(<<0, 1>>))
      with_ap == [results EXCEPT
                    !.ap = average_precision_score(y_true_bin, y_pred_probs, lib)]
      calls == IF all_labels_same THEN <<>>
               ELSE <<AucCall("get_metrics_binary", y_true_bin, y_pred_probs, "macro")>>
      with_auc == IF all_labels_same THEN with_ap
                  ELSE [with_ap EXCEPT
                          !.roc_auc = roc_auc_score(y_true_bin, y_pred_probs, "macro")]
  IN IF any_probs_nan THEN Ok(results, <<>>)
     ELSE IF ~all_labels_same /\ roc_auc_raises(y_true_bin, "macro")
          THEN Raise("ValueError", calls)
     ELSE IF include_curves
          THEN Ok(get_pr_roc_curves(y_true, Col(y_pred_probs, 2)) @@ with_auc, calls)
     ELSE Ok(with_auc, calls)

RECURSIVE ConcatCalls(_, _)
ConcatCalls(f, n) == IF n = 0 THEN <<>> ELSE ConcatCalls(f, n - 1) \o f[n].auc_calls

\* the probability matrix passed on unrestricted
filtered_probs_unrestricted(y_pred_probs, present_classes) == y_pred_probs
\* y_pred_probs[:, present_classes]
filtered_probs(y_pred_probs, present_classes) ==
  [i \in 1..Len(y_pred_probs) |->
     [k \in 1..Len(present_classes) |-> y_pred_probs[i][present_classes[k] + 1]]]
\* list(range(y_pred_probs.shape[1]))
all_classes(y_pred_probs) == [c \in 1..NumCols(y_pred_probs) |-> c - 1]
\* the two columns stacked the other way round
class_pred_probs_swapped(y_pred_probs, cls) ==
  [i \in 1..Len(y_pred_probs) |->
     <<y_pred_probs[i][cls + 1], Complement(y_pred_probs[i][cls + 1])>>]
\* np.column_stack((1 - y_pred_probs[:, cls], y_pred_probs[:, cls]))
class_pred_probs(y_pred_probs, cls) ==
  [i \in 1..Len(y_pred_probs) |->
     <<Complement(y_pred_probs[i][cls + 1]), y_pred_probs[i][cls + 1]>>]

get_metrics_multiclass(y_true, y_pred, y_pred_probs, include_per_class, include_curves, lib) ==
  LET C == NumCols(y_pred_probs)
      results == [accuracy |-> accuracy_score(y_true, y_pred),
                  cohen_kappa |-> cohen_kappa_score(y_true, y_pred),
                  f1_micro |-> f1_score_micro(y_true, y_pred),
                  f1_macro |-> f1_score_macro(y_true, y_pred),
                  roc_auc_micro |-> NaN,
                  roc_auc_macro |-> NaN,
                  rank_accuracy |-> rank_n_accuracy(y_true, y_pred_probs, DefaultN).val]
      present_classes == unique(y_true)
      all_labels_same == Len(present_classes) = 1
      any_probs_nan == any_isnan(y_pred_probs)
      scores_auc == ~(all_labels_same \/ any_probs_nan)
      index_error == \E k \in 1..Len(present_classes) : present_classes[k] >= C
      y_true_bin == get_per_class_matrix(y_true, None)
      filtered == filtered_probs(y_pred_probs, present_classes)
      calls == IF scores_auc
               THEN <<AucCall("get_metrics_multiclass", y_true_bin, filtered, "micro"),
                      AucCall("get_metrics_multiclass", y_true_bin, filtered, "macro")>>
               ELSE <<>>
      with_auc == IF scores_auc
                  THEN [results EXCEPT
                          !.roc_auc_micro = roc_auc_score(y_true_bin, filtered, "micro"),
                          !.roc_auc_macro = roc_auc_score(y_true_bin, filtered, "macro")]
                  ELSE results
      classes == all_classes(y_pred_probs)
      y_true_bin_all == get_per_class_matrix(y_true, Explicit(classes))
      y_pred_bin_all == get_per_class_matrix(y_pred, Explicit(classes))
      class_res == [c \in 1..C |->
                      get_metrics_binary(
                        Col(y_true_bin_all, c), Col(y_pred_bin_all, c),
                        class_pred_probs(y_pred_probs, classes[c]),
                        include_curves, lib)]
      class_wise == [cls \in {classes[c] : c \in 1..C} |-> class_res[cls + 1].res]
  IN IF scores_auc /\ index_error THEN Raise("IndexError", <<>>)
     ELSE IF scores_auc /\ (roc_auc_raises(y_true_bin, "micro")
                            \/ roc_auc_raises(y_true_bin, "macro"))
          THEN Raise("ValueError", calls)
     ELSE IF include_per_class \/ include_curves
          THEN IF \E c \in 1..C : class_res[c].exc # "none"
               THEN Raise("ValueError", calls \o ConcatCalls(class_res, C))
               ELSE Ok([class_wise |-> class_wise] @@ with_auc,
                       calls \o ConcatCalls(class_res, C))
     ELSE Ok(with_auc, calls)

\* ------------------------------------------------------------------ state
VARIABLES
  pc,       \* where the call stands: "call", "done"; for cross-validation
            \* "split", "fit", "test", "returned", "raised"
  args,     \* the arguments of the call
  lib,      \* the library build's average precision without positives
  ret,      \* what the call returned, or NoRet
  yielded,  \* cross-validation: the folds the splitter has yielded, in order
  df,       \* cross-validation: the rows of the summary table
  results,  \* cross-validation: the raw per-fold results
  fits,     \* cross-validation: number of pipeline.fit calls
  failed    \* cross-validation: the exception a step raised, or "none"
vars == <<pc, args, lib, ret, yielded, df, results, fits, failed>>
cvVars == <<yielded, df, results, fits, failed>>
NoRet == [exc |-> "pending"]
CvIdle ==
  /\ yielded = <<>>
  /\ df = <<>>
  /\ results = <<>>
  /\ fits = 0
  /\ failed = "none"

\* ------------------------------------------------------------------ inputs
Classes(C) == 0..(C - 1)
OneHot(C, c) == [j \in 1..C |-> IF j = c + 1 THEN One ELSE Zero]
Uniform(C) == [j \in 1..C |-> Half]
NaNAt(C, c) == [j \in 1..C |-> IF j = c + 1 THEN NaN ELSE Half]
Succ(C, c) == (c + 1) % C
SeqsUpTo(S, n) == UNION {[1..k -> S] : k \in 1..n}

\* one sample: its true label, its predicted label, its row of scores
BinarySamples ==
  {[t |-> t, p |-> p, row |-> r] :
     t \in Classes(2), p \in Classes(2),
     r \in {OneHot(2, 0), OneHot(2, 1), Uniform(2), NaNAt(2, 0), NaNAt(2, 1)}}
MultiSamples(C) ==
  UNION {{[t |-> t, p |-> t, row |-> OneHot(C, t)],
          [t |-> t, p |-> Succ(C, t), row |-> Uniform(C)],
          [t |-> t, p |-> t, row |-> NaNAt(C, Succ(C, t))]} : t \in Classes(C)}
RankSamples(C) ==
  UNION {{[t |-> t, row |-> OneHot(C, t)],
          [t |-> t, row |-> OneHot(C, Succ(C, t))],
          [t |-> t, row |-> Uniform(C)],
          [t |-> t, row |-> NaNAt(C, t)]} : t \in Classes(C)}
\* n: integer counts around the valid range, and proportions
NValues(C) ==
  {IntN(k) : k \in (0 - 1)..(C + 1)} \cup {DefaultN, R(67, 100), R(1, 100), R(0 - 33, 100)}
YTrue(d) == [i \in 1..Len(d) |-> d[i].t]
YPred(d) == [i \in 1..Len(d) |-> d[i].p]
Probs(d) == [i \in 1..Len(d) |-> d[i].row]
\* explicit class lists: every ordering of every subset, the empty list included
ClassLists(C) ==
  {l \in UNION {[1..k -> Classes(C)] : k \in 0..C} :
     \A i, j \in 1..Len(l) : i # j => l[i] # l[j]}

\* ---------------------------------------------------- rank_n_accuracy alone
InitRank ==
  /\ pc = "call"
  /\ \E C \in 1..NumClasses : \E d \in SeqsUpTo(RankSamples(C), MaxSamples) :
       \E n \in NValues(C) :
         args = [y_true |-> YTrue(d), y_prob_mat |-> Probs(d), n |-> n]
  /\ lib = "nan"
  /\ ret = NoRet
  /\ CvIdle
Call_rank_n_accuracy ==
  /\ pc = "call"
  /\ ret' = rank_n_accuracy(args.y_true, args.y_prob_mat, args.n)
  /\ pc' = "done"
  /\ UNCHANGED <<args, lib, cvVars>>
SpecRank == InitRank /\ [][Call_rank_n_accuracy]_vars

\* ----------------------------------------------- get_per_class_matrix alone
InitMatrix ==
  /\ pc = "call"
  /\ \E y \in SeqsUpTo(Classes(NumClasses), MaxSamples) :
       \E c \in {None} \cup {Explicit(l) : l \in ClassLists(NumClasses)} :
         args = [y |-> y, classes |-> c]
  /\ lib = "nan"
  /\ ret = NoRet
  /\ CvIdle
Call_get_per_class_matrix ==
  /\ pc = "call"
  /\ ret' = [exc |-> "none", val |-> get_per_class_matrix(args.y, args.classes)]
  /\ pc' = "done"
  /\ UNCHANGED <<args, lib, cvVars>>
SpecMatrix == InitMatrix /\ [][Call_get_per_class_matrix]_vars

\* ------------------------------------------------- get_metrics_binary alone
InitBinary ==
  /\ pc = "call"
  /\ \E d \in SeqsUpTo(BinarySamples, MaxSamples) : \E curves \in BOOLEAN :
       args = [y_true |-> YTrue(d), y_pred |-> YPred(d), y_pred_probs |-> Probs(d),
               include_curves |-> curves]
  /\ lib \in APZeroPositive
  /\ ret = NoRet
  /\ CvIdle
Call_get_metrics_binary ==
  /\ pc = "call"
  /\ ret' = get_metrics_binary(args.y_true, args.y_pred, args.y_pred_probs,
                               args.include_curves, lib)
  /\ pc' = "done"
  /\ UNCHANGED <<args, lib, cvVars>>
SpecBinary == InitBinary /\ [][Call_get_metrics_binary]_vars

\* --------------------------------------------- get_metrics_multiclass alone
InitMulti ==
  /\ pc = "call"
  /\ \E d \in SeqsUpTo(MultiSamples(NumClasses), MaxSamples) :
       \E per_class \in BOOLEAN : \E curves \in BOOLEAN :
         args = [y_true |-> YTrue(d), y_pred |-> YPred(d), y_pred_probs |-> Probs(d),
                 include_per_class |-> per_class, include_curves |-> curves]
  /\ lib \in APZeroPositive
  /\ ret = NoRet
  /\ CvIdle
Call_get_metrics_multiclass ==
  /\ pc = "call"
  /\ ret' = get_metrics_multiclass(args.y_true, args.y_pred, args.y_pred_probs,
                                   args.include_per_class, args.include_curves, lib)
  /\ pc' = "done"
  /\ UNCHANGED <<args, lib, cvVars>>
SpecMulti == InitMulti /\ [][Call_get_metrics_multiclass]_vars

\* -------------------------------------------------- atm/constants.py names
METRICS_BINARY == <<"accuracy", "cohen_kappa", "f1", "roc_auc", "ap", "mcc">>
METRICS_MULTICLASS ==
  <<"accuracy", "rank_accuracy", "cohen_kappa", "f1_micro", "f1_macro",
    "roc_auc_micro", "roc_auc_macro">>

\* ------------------------------------------------------------ test_pipeline
Neg(x) == IF isnan(x) THEN NaN ELSE R(0 - x.num, x.den)
\* **kwargs as the set of keyword names passed (each passed as True)
Keywords == {"include_per_class", "include_curves"}
\* out: what the fitted pipeline answers on the held-out rows (predict, the
\* name of its last step, decision_function, predict_proba)
test_pipeline(out, y, binary, kwargs, build) ==
  LET y_pred == out.y_pred
      y_pred_probs ==
        IF out.method \in {"sgd", "pa"}
        THEN IF binary
             THEN [i \in 1..Len(out.decision) |->
                     <<Neg(out.decision[i]), out.decision[i]>>]
             ELSE out.decision
        ELSE out.proba
  IN IF ~out.predict_ok THEN Raise("PredictError", <<>>)
     ELSE IF binary
          THEN IF "include_per_class" \in kwargs THEN Raise("TypeError", <<>>)
               ELSE get_metrics_binary(y, y_pred, y_pred_probs,
                                       "include_curves" \in kwargs, build)
     ELSE get_metrics_multiclass(y, y_pred, y_pred_probs,
                                 "include_per_class" \in kwargs,
                                 "include_curves" \in kwargs, build)

\* ------------------------------------------------- cross_validate_pipeline
PyNone == [none |-> TRUE]
\* dict.get(m): the value, or None when the key is missing
Get(d, m) == IF m \in DOMAIN d THEN d[m] ELSE PyNone
Range(f) == {f[i] : i \in DOMAIN f}
\* {m: split_results.get(m) for m in metrics}
Row(split_results, metrics) == [m \in Range(metrics) |-> Get(split_results, m)]
MetricsOf(binary) == IF binary THEN METRICS_BINARY ELSE METRICS_MULTICLASS

\* what the splitter and the pipeline can present for one fold: the held-out
\* labels and the pipeline's answers on the held-out rows
Out(y_pred, method, decision, proba) ==
  [predict_ok |-> TRUE, y_pred |-> y_pred, method |-> method,
   decision |-> decision, proba |-> proba]
FoldCases(binary) ==
  IF binary
  THEN {[y |-> <<0, 1>>, out |-> Out(<<0, 1>>, "rf", <<>>, <<OneHot(2, 0), OneHot(2, 1)>>)],
        [y |-> <<1, 1>>, out |-> Out(<<1, 0>>, "rf", <<>>, <<OneHot(2, 1), Uniform(2)>>)],
        [y |-> <<0, 1>>, out |-> Out(<<1, 1>>, "rf", <<>>, <<NaNAt(2, 0), OneHot(2, 1)>>)],
        [y |-> <<0, 1>>, out |-> Out(<<0, 1>>, "sgd", <<Neg(One), Half>>, <<>>)],
        [y |-> <<0, 1>>, out |-> [Out(<<>>, "rf", <<>>, <<>>) EXCEPT !.predict_ok = FALSE]]}
  ELSE {[y |-> <<0, 2>>, out |-> Out(<<0, 2>>, "rf", <<>>, <<OneHot(3, 0), OneHot(3, 2)>>)],
        [y |-> <<1, 1>>, out |-> Out(<<1, 0>>, "rf", <<>>, <<OneHot(3, 1), Uniform(3)>>)],
        [y |-> <<0, 1>>, out |-> Out(<<2, 1>>, "rf", <<>>, <<NaNAt(3, 0), OneHot(3, 1)>>)],
        [y |-> <<2, 1>>, out |-> Out(<<2, 1>>, "pa", <<OneHot(3, 2), Uniform(3)>>, <<>>)],
        [y |-> <<0, 1>>, out |-> [Out(<<>>, "rf", <<>>, <<>>) EXCEPT !.predict_ok = FALSE]]}

Init ==
  /\ pc = "split"
  /\ \E binary \in BOOLEAN : \E n \in 1..MaxFolds : \E kw \in SUBSET Keywords :
       args = [binary |-> binary, n_folds |-> n, kwargs |-> kw]
  /\ lib \in APZeroPositive
  /\ ret = NoRet
  /\ CvIdle

\* an exception leaves cross_validate_pipeline: nothing is returned
Propagate(e) ==
  /\ failed' = e
  /\ pc' = "raised"
  /\ ret' = [exc |-> e]

\* StratifiedKFold(n_splits=n_folds) refuses fewer than two splits
SplitterRejects ==
  /\ pc = "split"
  /\ yielded = <<>>
  /\ args.n_folds < 2
  /\ Propagate("ValueError")
  /\ UNCHANGED <<args, lib, yielded, df, results, fits>>
\* skf.split(X, y) cannot stratify: raised when the loop asks for the first fold
StratificationFails ==
  /\ pc = "split"
  /\ yielded = <<>>
  /\ args.n_folds >= 2
  /\ Propagate("StratificationFailure")
  /\ UNCHANGED <<args, lib, yielded, df, results, fits>>
\* the loop takes the next (train_index, test_index) pair
NextFold ==
  /\ pc = "split"
  /\ args.n_folds >= 2
  /\ Len(yielded) < args.n_folds
  /\ \E f \in FoldCases(args.binary) : yielded' = Append(yielded, f)
  /\ pc' = "fit"
  /\ UNCHANGED <<args, lib, ret, df, results, fits, failed>>
\* pipeline.fit(X[train_index], y[train_index]) returns
Fit ==
  /\ pc = "fit"
  /\ fits' = fits + 1
  /\ pc' = "test"
  /\ UNCHANGED <<args, lib, ret, yielded, df, results, failed>>
\* pipeline.fit raises and the loop goes on to the next fold
FitFails_caught ==
  /\ pc = "fit"
  /\ fits' = fits + 1
  /\ failed' = "FitError"
  /\ pc' = "split"
  /\ UNCHANGED <<args, lib, ret, yielded, df, results>>
\* pipeline.fit raises
FitFails ==
  /\ pc = "fit"
  /\ fits' = fits + 1
  /\ Propagate("FitError")
  /\ UNCHANGED <<args, lib, yielded, df, results>>
\* the row goes to the end of the table, the result to the front of the list
TestAndAppend_front ==
  /\ pc = "test"
  /\ LET f == yielded[Len(yielded)]
         r == test_pipeline(f.out, f.y, args.binary, args.kwargs, lib)
     IN /\ r.exc = "none"
        /\ df' = Append(df, Row(r.res, MetricsOf(args.binary)))
        /\ results' = <<r.res>> \o results
  /\ pc' = "split"
  /\ UNCHANGED <<args, lib, ret, yielded, fits, failed>>
\* test_pipeline returns; its result is appended to the table and to the list
TestAndAppend ==
  /\ pc = "test"
  /\ LET f == yielded[Len(yielded)]
         r == test_pipeline(f.out, f.y, args.binary, args.kwargs, lib)
     IN /\ r.exc = "none"
        /\ df' = Append(df, Row(r.res, MetricsOf(args.binary)))
        /\ results' = Append(results, r.res)
  /\ pc' = "split"
  /\ UNCHANGED <<args, lib, ret, yielded, fits, failed>>
\* test_pipeline raises
TestFails ==
  /\ pc = "test"
  /\ LET f == yielded[Len(yielded)]
         r == test_pipeline(f.out, f.y, args.binary, args.kwargs, lib)
     IN /\ r.exc # "none"
        /\ Propagate(r.exc)
  /\ UNCHANGED <<args, lib, yielded, df, results, fits>>
\* the splitter is exhausted: return df, results
Return ==
  /\ pc = "split"
  /\ args.n_folds >= 2
  /\ Len(yielded) = args.n_folds
  /\ ret' = [exc |-> "none",
             df |-> [columns |-> MetricsOf(args.binary), rows |-> df],
             results |-> results]
  /\ pc' = "returned"
  /\ UNCHANGED <<args, lib, cvVars>>

Next ==
  \/ SplitterRejects
  \/ StratificationFails
  \/ NextFold
  \/ Fit
  \/ FitFails
  \/ TestAndAppend
  \/ TestFails
  \/ Return
Spec == Init /\ [][Next]_vars

\* ------------------------------------------------------------------ claims
HasNaN(M) == \E i \in 1..Len(M) : \E j \in 1..Len(M[i]) : M[i][j].nan
Labels(y) == {y[i] : i \in 1..Len(y)}
Indicator(y, c) == [i \in 1..Len(y) |-> IF y[i] = c THEN 1 ELSE 0]
IsOne(x) == ~x.nan /\ x.num = x.den
CurveKeys == {"roc_curve", "pr_curve"}
\* the matrix with every NaN entry replaced by a number
Scrub(M) == [i \in 1..Len(M) |-> [j \in 1..Len(M[i]) |-> IF M[i][j].nan THEN Half ELSE M[i][j]]]
ColumnHasNaN(M, c) == \E i \in 1..Len(M) : M[i][c + 1].nan
\* the roc_auc_score invocations get_metrics_multiclass made itself
OwnAucCalls ==
  {k \in 1..Len(ret.auc_calls) : ret.auc_calls[k].by = "get_metrics_multiclass"}

\* C1: a run whose splitter yields N folds, none failing, returns a table of
\* exactly N rows and a list of exactly N results; row i and result i come
\* from the i-th fold yielded; the columns are the mode's metric enumeration
\* and a metric missing from a fold's result is None in its row.
C1_RowPerFold ==
  pc = "returned" =>
    /\ ret.exc = "none"
    /\ Len(yielded) = args.n_folds
    /\ Len(ret.df.rows) = args.n_folds
    /\ Len(ret.results) = args.n_folds
    /\ ret.df.columns = (IF args.binary THEN METRICS_BINARY ELSE METRICS_MULTICLASS)
    /\ \A i \in 1..args.n_folds :
         LET r == test_pipeline(yielded[i].out, yielded[i].y, args.binary, args.kwargs, lib)
             row == ret.df.rows[i]
         IN /\ r.exc = "none"
            /\ ret.results[i] = r.res
            /\ DOMAIN row = Range(ret.df.columns)
            /\ \A m \in DOMAIN row :
                 row[m] = (IF m \in DOMAIN r.res THEN r.res[m] ELSE PyNone)
C1_Witness ==
  /\ pc = "returned"
  /\ args.n_folds >= 2
  /\ Len(ret.df.rows) = args.n_folds
  /\ yielded[1] # yielded[2]
  /\ ret.results[1] # ret.results[2]

\* C2: with a NaN anywhere in the probability matrix, get_metrics_binary
\* leaves ROC-AUC and average precision NaN and adds no curve key even when
\* curves are requested, while accuracy, kappa, F1 and MCC are the values the
\* labels alone give (those of the same call on a NaN-free matrix).
C2_NaNProbabilities ==
  (pc = "done" /\ HasNaN(args.y_pred_probs)) =>
    /\ ret.exc = "none"
    /\ ret.res.roc_auc.nan
    /\ ret.res.ap.nan
    /\ CurveKeys \cap DOMAIN ret.res = {}
    /\ ret.res.accuracy = R(Agree(args.y_true, args.y_pred), Len(args.y_true))
    /\ LET clean == get_metrics_binary(args.y_true, args.y_pred,
                                       Scrub(args.y_pred_probs), args.include_curves, lib).res
       IN \A m \in {"accuracy", "cohen_kappa", "f1", "mcc"} : ret.res[m] = clean[m]
C2_Witness ==
  /\ pc = "done"
  /\ HasNaN(args.y_pred_probs)
  /\ args.include_curves
  /\ Cardinality(Labels(args.y_true)) = 2
  /\ ret.res.ap.nan
  /\ IsOne(ret.res.accuracy)

\* C3: for true labels of a single class and a NaN-free probability matrix,
\* ROC-AUC is NaN and the ROC-AUC primitive is never invoked, and average
\* precision is a finite number in [0,1].
C3_SingleClass ==
  (pc = "done" /\ Cardinality(Labels(args.y_true)) = 1 /\ ~HasNaN(args.y_pred_probs)) =>
    /\ ret.exc = "none"
    /\ ret.res.roc_auc.nan
    /\ ret.auc_calls = <<>>
    /\ InUnit(ret.res.ap)

\* C4: get_metrics_multiclass invokes the ROC-AUC primitive only with at
\* least two distinct true classes and no NaN probability, otherwise micro and
\* macro ROC-AUC stay NaN; in every invocation the indicator matrix and the
\* restricted probability matrix have the same columns, column j of both is
\* the j-th present class, and every indicator column sums to more than 0.
C4_RestrictedAuc ==
  pc = "done" =>
    LET present == SortAsc(Labels(args.y_true))
    IN /\ ret.exc = "none"
       /\ OwnAucCalls # {} =>
            Cardinality(Labels(args.y_true)) >= 2 /\ ~HasNaN(args.y_pred_probs)
       /\ OwnAucCalls = {} => ret.res.roc_auc_micro.nan /\ ret.res.roc_auc_macro.nan
       /\ \A k \in OwnAucCalls :
            LET Y == ret.auc_calls[k].y_true
                P == ret.auc_calls[k].y_score
            IN /\ Len(Y) = Len(args.y_true)
               /\ Len(P) = Len(args.y_true)
               /\ \A i \in 1..Len(Y) : Len(Y[i]) = Len(present) /\ Len(P[i]) = Len(present)
               /\ \A j \in 1..Len(present) :
                    /\ \A i \in 1..Len(Y) :
                         /\ Y[i][j] = Indicator(args.y_true, present[j])[i]
                         /\ P[i][j] = args.y_pred_probs[i][present[j] + 1]
                    /\ Cardinality({i \in 1..Len(Y) : Y[i][j] = 1}) > 0
C4_Witness ==
  /\ pc = "done"
  /\ OwnAucCalls # {}
  /\ Labels(args.y_true) = {0, NumClasses - 1}
  /\ ~ret.res.roc_auc_macro.nan

\* C5: get_per_class_matrix returns an S x |classes| matrix with entry (i,j)
\* = 1 iff label i is class j; inferred classes are the sorted distinct
\* labels, so no column is all zero; explicit classes each get a column, all
\* zero for a listed class that does not occur.
C5_IndicatorMatrix ==
  pc = "done" =>
    LET cls == IF args.classes.given THEN args.classes.list
               ELSE SortAsc(Labels(args.y))
        M == ret.val
    IN /\ Len(M) = Len(args.y)
       /\ \A i \in 1..Len(M) :
            /\ Len(M[i]) = Len(cls)
            /\ \A j \in 1..Len(cls) : M[i][j] = (IF args.y[i] = cls[j] THEN 1 ELSE 0)
       /\ ~args.classes.given =>
            \A j \in 1..Len(cls) : \E i \in 1..Len(M) : M[i][j] = 1
       /\ args.classes.given =>
            \A j \in 1..Len(cls) :
              cls[j] \notin Labels(args.y) => \A i \in 1..Len(M) : M[i][j] = 0

\* C6: rank_n_accuracy fails with InvalidConfiguration whenever the resolved
\* K is <= 0 or greater than the number of columns; it returns no score then.
C6_InvalidKRejected ==
  pc = "done" =>
    LET C == NumCols(args.y_prob_mat)
        K == IF args.n.num >= args.n.den THEN args.n.num
             ELSE Round(R(C * args.n.num, args.n.den))
    IN (K <= 0 \/ K > C) => ret.exc = "InvalidConfiguration"

\* C7: with more than one class and K equal to the number of columns,
\* rank_n_accuracy returns exactly 1.0 whatever the labels and the matrix.
C7_TopAllIsOne ==
  (/\ pc = "done"
   /\ NumCols(args.y_prob_mat) > 1
   /\ args.n = IntN(NumCols(args.y_prob_mat))) =>
    ret.exc = "none" /\ IsOne(ret.val)
C7_Witness ==
  /\ pc = "done"
  /\ NumCols(args.y_prob_mat) > 1
  /\ args.n = IntN(NumCols(args.y_prob_mat))
  /\ Len(args.y_true) >= 2
  /\ HasNaN(args.y_prob_mat)
  /\ IsOne(ret.val)

\* C8: a failure in any fold (splitter, fit or evaluation) ends the run: the
\* exception reaches the caller, nothing is returned, and no step follows it
\* (no later fold is fitted or evaluated).
C8_FailureAborts ==
  /\ [](failed # "none" => (pc = "raised" /\ ret = [exc |-> failed]))
  /\ [][failed = "none"]_vars
C8_Witness ==
  /\ pc = "raised"
  /\ failed = "FitError"
  /\ Len(results) >= 1
  /\ Len(yielded) < args.n_folds
  /\ ret = [exc |-> "FitError"]

\* C9: get_metrics_binary always returns the ROC-AUC and average-precision
\* keys, and the two curve keys exactly when curves are requested and no
\* probability is NaN, also when the true labels hold one class only.
C9_CurveKeys ==
  pc = "done" =>
    /\ ret.exc = "none"
    /\ {"roc_auc", "ap"} \subseteq DOMAIN ret.res
    /\ \A k \in CurveKeys :
         (k \in DOMAIN ret.res) <=> (args.include_curves /\ ~HasNaN(args.y_pred_probs))
C9_Witness ==
  /\ pc = "done"
  /\ Cardinality(Labels(args.y_true)) = 1
  /\ args.include_curves
  /\ ~HasNaN(args.y_pred_probs)
  /\ CurveKeys \subseteq DOMAIN ret.res
  /\ ret.res.roc_auc.nan

\* C10: class_wise is in the multiclass result exactly when per-class or
\* curve output is requested; its keys are the class indices 0..C-1, and the
\* entry of class c is the get_metrics_binary result of the one-vs-rest
\* labels of c with the matrix [1 - P(c), P(c)]: a NaN in another column does
\* not make class c's ROC-AUC or average precision NaN.
C10_ClassWise ==
  pc = "done" =>
    /\ ret.exc = "none"
    /\ ("class_wise" \in DOMAIN ret.res) <=> (args.include_per_class \/ args.include_curves)
    /\ "class_wise" \in DOMAIN ret.res =>
         LET cw == ret.res.class_wise
             P == args.y_pred_probs
         IN /\ DOMAIN cw = 0..(NumCols(P) - 1)
            /\ \A c \in DOMAIN cw :
                 LET two == [i \in 1..Len(P) |-> <<Complement(P[i][c + 1]), P[i][c + 1]>>]
                     expect == get_metrics_binary(Indicator(args.y_true, c),
                                                  Indicator(args.y_pred, c),
                                                  two, args.include_curves, lib)
                 IN /\ expect.exc = "none"
                    /\ cw[c] = expect.res
                    /\ (/\ ~ColumnHasNaN(P, c)
                        /\ c \in Labels(args.y_true)
                        /\ Labels(args.y_true) # {c})
                         => (~cw[c].roc_auc.nan /\ ~cw[c].ap.nan)
C10_Witness ==
  /\ pc = "done"
  /\ "class_wise" \in DOMAIN ret.res
  /\ \E c \in Labels(args.y_true) :
       /\ Labels(args.y_true) # {c}
       /\ ~ColumnHasNaN(args.y_pred_probs, c)
       /\ HasNaN(args.y_pred_probs)
       /\ ~ret.res.class_wise[c].roc_auc.nan
       /\ ~ret.res.class_wise[c].ap.nan
  /\ \E c \in DOMAIN ret.res.class_wise : c \notin Labels(args.y_true)

====
